---- MODULE Spec2Model ----
(***************************************************************************)
(* A model of the chunked summarization pipeline of page_summarizer:       *)
(*   - the Text Chunker        (summarizer.py, chunk_text),                *)
(*   - the Completion Client   (summarizer.py, summarize_text),            *)
(*   - the Job Driver          (lambda.py, lambda_handler/process_webpage) *)
(*   - the recombination of the per-chunk results (webpage_processor.py,   *)
(*     process_debate_mode_chunks and process_default_mode_chunks).        *)
(* The specifications share the variables: SpecChunk runs chunk_text on    *)
(* bounded inputs, SpecClient runs summarize_text against a backend stub,  *)
(* SpecRecombine runs the two recombination functions against a stub of    *)
(* summarize_text, SpecJob runs process_summary_job (webpage_processor.py) *)
(* against stubs of chunk_text, summarize_text and the archive, Spec (and  *)
(* FairSpec, Spec with the scheduling fairness) runs concurrent complete   *)
(* requests through lambda_handler against the status store, SpecRequests  *)
(* runs requests of every kind one at a time, SpecFaulty does so against a *)
(* store whose writes can fail, and SpecWorker starts process_webpage on a *)
(* store that holds any of the records the code writes.                    *)
(***************************************************************************)
EXTENDS Integers, Sequences, FiniteSets, TLC

VARIABLES
    \* chunk_text (summarizer.py:228-255)
    text, max_chunk_size, overlap, start_pos, end_pos, chunks, ct_pc,
    \* summarize_text (summarizer.py:81-225) and its backend stub
    mode, html_output, max_retries, system_prompt, attempt, full_response,
    result, st_pc, stub_failures, calls, sent, dropped, slept, waits,
    \* the status store, the requests in progress (lambda.py), and how many
    \* invocations the runtime lets run at once
    store, proc, max_in_flight,
    \* the environment: the requests that arrive (kind and mode), and whether
    \* put_object can raise (update_status_file then returns False)
    requests, put_may_fail,
    \* process_summary_job and process_multiple_chunks
    \* (webpage_processor.py:178-399): the arguments, the locals, the statuses
    \* handed to update_status_callback, the position
    job,
    \* process_debate_mode_chunks and process_default_mode_chunks
    \* (webpage_processor.py:402-475): the function called, its arguments, its
    \* locals, the summarize_text calls it made and what it returned
    rc_fn, chunk_list, combined_summaries, chunk_i, html_summaries, meta_summary,
    completions, output, rc_pc

chunkVars == <<text, max_chunk_size, overlap, start_pos, end_pos, chunks, ct_pc>>
clientArgs == <<mode, html_output, max_retries, stub_failures>>
clientVars == <<mode, html_output, max_retries, system_prompt, attempt, full_response,
                result, st_pc, stub_failures, calls, sent, dropped, slept, waits>>
driverVars == <<store, proc, max_in_flight, requests, put_may_fail>>
jobVars == <<driverVars, job>>
recombineVars == <<rc_fn, chunk_list, combined_summaries, chunk_i, html_summaries,
                   meta_summary, completions, output, rc_pc>>
vars == <<chunkVars, clientVars, jobVars, recombineVars>>

----------------------------------------------------------------------------
(* Bounds of the model.                                                    *)

\* runs per input text of chunk_text
MaxRuns == 3
\* characters per run of an input text
MaxRun == 2
\* largest max_chunk_size tried by SpecChunk
MaxSize == 5
\* chunks recorded of a chunk_text call of the job driver
MaxIter == 3
\* pieces (filler runs and markers) per input text of the marker inputs
MaxTokens == 4
\* largest max_chunk_size tried with the marker inputs
MaxLongSize == 8
\* chunks per list given to process_debate_mode_chunks
MaxChunks == 3
\* largest max_retries tried by SpecClient
MaxRetries == 3
\* events the backend stub delivers in one stream
MaxEvents == 2
\* invocations of lambda_handler that can be in progress together
NumProcs == 2

Max(a, b) == IF a >= b THEN a ELSE b
Min(a, b) == IF a <= b THEN a ELSE b

----------------------------------------------------------------------------
(* Strings.  A Python str is modelled run-length encoded: a sequence of    *)
(* runs [c, n] (character c repeated n > 0 times), adjacent runs holding   *)
(* different characters.  Positions are 0-based as in Python.              *)

NL == "\\n"
SP == " "
DOT == "."
BANG == "!"
QM == "?"

Run(c, n) == [c |-> c, n |-> n]

RECURSIVE TextLen(_)
TextLen(t) == IF t = <<>> THEN 0 ELSE t[1].n + TextLen(Tail(t))

\* s + t
Cat(s, t) ==
    IF s = <<>> THEN t
    ELSE IF t = <<>> THEN s
    ELSE IF s[Len(s)].c = t[1].c
         THEN SubSeq(s, 1, Len(s) - 1) \o <<Run(t[1].c, s[Len(s)].n + t[1].n)>> \o Tail(t)
         ELSE s \o t

\* Python's adjustment of a slice index to 0..len
PyIndex(i, len) == IF i < 0 THEN Max(i + len, 0) ELSE Min(i, len)

RECURSIVE Cut(_, _, _)
Cut(t, a, b) ==
    IF t = <<>> THEN <<>>
    ELSE LET n == t[1].n IN
         IF a >= n THEN Cut(Tail(t), a - n, b - n)
         ELSE IF b <= n THEN <<Run(t[1].c, b - a)>>
         ELSE <<Run(t[1].c, n - a)>> \o Cut(Tail(t), 0, b - n)

\* t[s:e]
Slice(t, s, e) ==
    LET len == TextLen(t)
        a == PyIndex(s, len)
        b == PyIndex(e, len)
    IN IF a >= b THEN <<>> ELSE Cut(t, a, b)

\* position of the first character of run j
Offset(t, j) == TextLen(SubSeq(t, 1, j - 1))

\* t.rfind(m, s, e) for a two-character marker m: the highest position p with
\* s <= p, p + 2 <= e and t[p:p+2] = m, or -1
RFind(t, m, s, e) ==
    LET len == TextLen(t)
        a == PyIndex(s, len)
        b == PyIndex(e, len)
        inside == { Min(Offset(t, j) + t[j].n - 2, b - 2) : j \in
                      { k \in 1..Len(t) : /\ m[1] = t[k].c /\ m[2] = t[k].c
                                          /\ t[k].n >= 2
                                          /\ Min(Offset(t, k) + t[k].n - 2, b - 2)
                                                >= Max(Offset(t, k), a) } }
        across == { Offset(t, j) + t[j].n - 1 : j \in
                      { k \in 1..(Len(t) - 1) : /\ m[1] = t[k].c /\ m[2] = t[k + 1].c
                                                /\ Offset(t, k) + t[k].n - 1 >= a
                                                /\ Offset(t, k) + t[k].n + 1 <= b } }
        found == inside \cup across
    IN IF found = {} THEN -1 ELSE CHOOSE p \in found : \A q \in found : q <= p

----------------------------------------------------------------------------
(* Text Chunker: chunk_text (summarizer.py:228-255).                       *)

Markers == << <<NL, NL>>, <<DOT, NL>>, <<DOT, SP>>, <<BANG, SP>>, <<QM, SP>> >>

\* mutant: the first marker found in the window decides, wherever it lies
RECURSIVE MarkerEnd_FirstPresent(_, _, _, _, _)
MarkerEnd_FirstPresent(t, start, end, size, k) ==
    IF k > Len(Markers) THEN end
    ELSE LET last_marker == RFind(t, Markers[k], start, end) IN
         IF last_marker # -1
         THEN (IF last_marker > start + (size \div 2)
               THEN last_marker + Len(Markers[k]) ELSE end)
         ELSE MarkerEnd_FirstPresent(t, start, end, size, k + 1)

\* mutant: a marker is taken wherever in the window it lies
RECURSIVE MarkerEnd_AnyPosition(_, _, _, _, _)
MarkerEnd_AnyPosition(t, start, end, size, k) ==
    IF k > Len(Markers) THEN end
    ELSE LET last_marker == RFind(t, Markers[k], start, end) IN
         IF last_marker # -1
         THEN last_marker + Len(Markers[k])
         ELSE MarkerEnd_AnyPosition(t, start, end, size, k + 1)

\* the for loop over the markers (lines 242-246), from marker k on
RECURSIVE MarkerEnd(_, _, _, _, _)
MarkerEnd(t, start, end, size, k) ==
    IF k > Len(Markers) THEN end
    ELSE LET last_marker == RFind(t, Markers[k], start, end) IN
         IF last_marker # -1 /\ last_marker > start + (size \div 2)
         THEN last_marker + Len(Markers[k])
         ELSE MarkerEnd(t, start, end, size, k + 1)

\* mutant: the window is not capped, the chunk runs to the end of the text
EndPos_WholeText(t, size, start) == TextLen(t)

\* end_pos of one iteration (lines 236-246)
EndPos(t, size, start) ==
    IF start + size >= TextLen(t) THEN TextLen(t)
    ELSE MarkerEnd(t, start, start + size, size, 1)

\* one iteration of the while loop (lines 236-249): the chunk appended and
\* the new start_pos
ChunkIter(t, size, ovl, start) ==
    LET e == EndPos(t, size, start) IN
    [end_pos |-> e, chunk |-> Slice(t, start, e), start_pos |-> e - ovl]

\* the loop goes on after an iteration: neither the break (line 252) nor the
\* while condition (line 234) ends it
LoopContinues(t, start) == start < TextLen(t)

\* the chunks a call appends, counted up to fuel of them (lines 234-253)
RECURSIVE CountFrom(_, _, _, _, _)
CountFrom(t, size, ovl, start, fuel) ==
    IF fuel = 0 \/ ~LoopContinues(t, start) THEN 0
    ELSE 1 + CountFrom(t, size, ovl, ChunkIter(t, size, ovl, start).start_pos, fuel - 1)

\* len(chunk_text(t, size, ovl)); a call that returns makes at most
\* TextLen(t) iterations
ChunkCount(t, size, ovl) == CountFrom(t, size, ovl, 0, TextLen(t) + 1)

----------------------------------------------------------------------------
(* Completion Client: summarize_text (summarizer.py:81-225).               *)

\* the keys of mode_instructions (lines 103-173)
ModeInstructions == {"default", "debate", "debate_html"}

\* mutant: the generic HTML suffix is appended whenever html_output is set
SelectPrompt_SuffixAlways(m, html) ==
    IF m = "debate" /\ html
    THEN [raised |-> FALSE, key |-> "debate_html", html_suffix |-> html]
    ELSE IF m \in ModeInstructions
    THEN [raised |-> FALSE, key |-> m, html_suffix |-> html]
    ELSE [raised |-> TRUE, key |-> "KeyError", html_suffix |-> FALSE]

\* lines 175-183: the system prompt, as the key of mode_instructions used and
\* whether the generic HTML suffix is appended; a mode that is no key raises
\* KeyError at line 179
SelectPrompt(m, html) ==
    IF m = "debate" /\ html
    THEN [raised |-> FALSE, key |-> "debate_html", html_suffix |-> FALSE]
    ELSE IF m \in ModeInstructions
    THEN [raised |-> FALSE, key |-> m, html_suffix |-> (html /\ m = "default")]
    ELSE [raised |-> TRUE, key |-> "KeyError", html_suffix |-> FALSE]

NoPrompt == [raised |-> FALSE, key |-> "unset", html_suffix |-> FALSE]

\* the return values: a str, or None
Str(t) == [is_none |-> FALSE, text |-> t]
None == [is_none |-> TRUE, text |-> <<>>]

Whitespace == {SP, NL}

\* str.strip()
RECURSIVE LStrip(_)
LStrip(t) == IF t # <<>> /\ t[1].c \in Whitespace THEN LStrip(Tail(t)) ELSE t
RECURSIVE RStrip(_)
RStrip(t) ==
    IF t # <<>> /\ t[Len(t)].c \in Whitespace THEN RStrip(SubSeq(t, 1, Len(t) - 1)) ELSE t
Strip(t) == RStrip(LStrip(t))

\* the events of a stream: text deltas, a content_block_delta whose delta has
\* no text, and an event of another type
TextDelta(t) == [type |-> "content_block_delta", has_text |-> TRUE, text |-> t]
Events ==
    { TextDelta(<<Run("a", 1)>>), TextDelta(<<Run(SP, 1)>>),
      [type |-> "content_block_delta", has_text |-> FALSE, text |-> <<>>],
      [type |-> "message_delta", has_text |-> FALSE, text |-> <<>>] }

\* lines 205-207: the buffer after one event
Accumulate(buf, e) ==
    IF e.type = "content_block_delta" /\ e.has_text THEN Cat(buf, e.text) ELSE buf

\* mutant: the buffer is set up once, before the attempts
NewBuffer_Kept(buf) == buf

\* line 201: the buffer at the start of an attempt
NewBuffer(buf) == <<>>

\* mutant: one attempt too few
MoreAttempts_Short(a, retries) == a < retries - 1

\* mutant: one attempt too many
MoreAttempts_Extra(a, retries) == a <= retries

\* line 188: for attempt in range(max_retries) has another iteration
MoreAttempts(a, retries) == a < retries

\* line 214
RateLimitWait == 60
\* lines 218, 222
RetryWait == 5

\* time.sleep after a failed attempt (lines 212-222)
WaitAfter(kind) == IF kind = "rate_limit" THEN RateLimitWait ELSE RetryWait

ErrorKinds == {"rate_limit", "timeout", "other"}

\* all text the stub delivered in a stream
RECURSIVE TextOf(_)
TextOf(evs) ==
    IF evs = <<>> THEN <<>>
    ELSE Cat(IF evs[1].type = "content_block_delta" /\ evs[1].has_text
             THEN evs[1].text ELSE <<>>,
             TextOf(Tail(evs)))

----------------------------------------------------------------------------
(* Job Driver: lambda_handler and process_webpage (lambda.py).             *)

\* lambda.py:302
LengthThreshold == 400000
\* summarizer.py:228, the defaults chunk_text(text_content) runs with
DefaultMaxChunkSize == 400000
DefaultOverlap == 8000

\* mutant: a text of exactly 400000 characters is sent to the chunker
FitsOneCall_Below(text_length) == text_length < LengthThreshold

\* lambda.py:302 (webpage_processor.py:217): the text is summarized by one call
FitsOneCall(text_length) == text_length <= LengthThreshold

Procs == 1..NumProcs
\* the page requested, in either mode (two keys of the status store)
Urls == {"https://example.com/page"}
\* the mode of a request: the two the program names, and any other value
JobModes == {"default", "debate", "other"}

\* mutant: one namespace for every mode
Namespace_Shared(m) == "summaries"

\* lines 70-73 and 99-102: the key prefix of a mode's status records
Namespace(m) == IF m = "debate" THEN "analysis" ELSE "summaries"
Namespaces == {"summaries", "analysis"}
Keys == Urls \X Namespaces
KeyOf(u, m) == <<u, Namespace(m)>>

\* a status: its tag, and i and n of summarizing_chunk_i_of_n (0 otherwise)
St(tag) == [tag |-> tag, i |-> 0, n |-> 0]
ChunkSt(i, n) == [tag |-> "summarizing_chunk", i |-> i, n |-> n]

\* a status record, or a response body: the status, the summary, the success
\* flag and the message it carries ("absent" for a key the dict does not hold)
Rec(st, summary, success, message) ==
    [status |-> st, summary |-> summary, success |-> success, message |-> message]
NoRecord == Rec(St("absent"), None, "absent", "absent")

\* lambda.py:263-268
ProcessingStatus == Rec(St("processing"), None, "absent", "Started processing webpage")

\* mutant: the failure is stored with a message of the driver's own
ErrorStatus_OwnMessage(message) ==
    Rec(St("failed"), None, "absent", "Error processing webpage")

\* lambda.py:275-280: error_status, carrying extraction_result["message"]
ErrorStatus(message) == Rec(St("failed"), None, "absent", message)

\* lambda.py:284-290, and what lines 314-324 make of it
Result(st, summary, success) == Rec(st, summary, success, "Content extracted successfully")

\* lambda.py:142-145 and 181-184: the messages of a failed extraction
ExtractMessages ==
    { "Failed to download webpage content", "Failed to extract content from webpage" }

\* the truth value of a status record read from the store (None when missing)
Truthy(rec) == rec # NoRecord
\* the truth value of a str or None
NonEmpty(r) == ~r.is_none /\ r.text # <<>>

\* mutant: the handler answers from the store only what process_webpage
\* itself would short-circuit on
HandlerReturnsStored_LikeWorker(rec) ==
    Truthy(rec) /\ (rec.status.tag = "processing"
                      \/ (rec.status.tag = "completed" /\ NonEmpty(rec.summary)))

\* mutant: the handler answers from the store only once the job has ended
HandlerReturnsStored_Ended(rec) ==
    Truthy(rec) /\ rec.status.tag \in {"completed", "failed"}

\* mutant: the handler answers from the store only while the job runs
HandlerReturnsStored_Running(rec) ==
    Truthy(rec) /\ rec.status.tag \notin {"completed", "failed"}

\* mutant: a failed job is started again
HandlerReturnsStored_Retry(rec) ==
    Truthy(rec) /\ rec.status.tag # "failed"

\* lambda.py:497-498: lambda_handler answers with the stored record
HandlerReturnsStored(rec) == Truthy(rec)

\* mutant: a completed record counts as cached with or without a summary
WorkerCached_AnyCompleted(rec) == Truthy(rec) /\ rec.status.tag = "completed"

\* lambda.py:235-237: process_webpage answers from the cache
WorkerCached(rec) ==
    Truthy(rec) /\ rec.status.tag = "completed" /\ NonEmpty(rec.summary)

\* mutant: process_webpage stands back for any job that has not ended
WorkerInProgress_AnyStage(rec) ==
    Truthy(rec) /\ ~WorkerCached(rec) /\ rec.status.tag \notin {"completed", "failed"}

\* lambda.py:247: process_webpage answers "in progress"
WorkerInProgress(rec) ==
    Truthy(rec) /\ ~WorkerCached(rec) /\ rec.status.tag = "processing"

\* what lambda_handler returns: a response with status code and body, or the
\* exception it ends with
Response(code, body) == [raised |-> "none", statusCode |-> code, body |-> body]
Raised(exc) == [raised |-> exc, statusCode |-> 0, body |-> NoRecord]
NoResponse == [raised |-> "none", statusCode |-> 0, body |-> NoRecord]

\* lines 522-532: the response for what process_webpage returned;
\* result["success"] raises KeyError when the dict has no such key
HandlerResult(res) ==
    IF res.success = "absent" THEN Raised("KeyError")
    ELSE Response(IF res.success = "true" THEN 200 ELSE 500, res)

\* the texts the extraction collaborator returns: never empty (line 180)
JobTexts ==
    { <<Run("a", 1)>>, <<Run("a", LengthThreshold)>>, <<Run("a", LengthThreshold + 1)>> }

\* what summarize_text returns to the job driver
CompletionResults == { None, Str(<<>>), Str(<<Run("s", 1)>>) }

\* the requests: complete (page_url and api_key), without api_key, without
\* page_url, with a body that is no JSON, and with a body that is JSON but no
\* object (null, a number)
RequestKinds == {"complete", "no_api_key", "no_page_url", "invalid_json", "not_object"}
\* the requests in which lambda_handler finds a page_url
HasPageUrl == {"complete", "no_api_key"}

\* complete requests in the two modes the program names
NamedModes == {"default", "debate"}
CompleteRequests == {"complete"} \X NamedModes

\* lambda.py:481, 519, 541: the body of a client-error response
ClientError(message) == Response(400, Rec(St("absent"), None, "false", message))

IdleProc ==
    [pc |-> "idle", request |-> "complete", url |-> "https://example.com/page",
     mode |-> "default", status |-> NoRecord,
     content |-> <<>>, message |-> "absent", summary |-> None, n_extract |-> 0,
     n_complete |-> 0, n_writes |-> 0, start_pos |-> 0, chunks |-> <<>>,
     response |-> NoResponse]

\* the dict process_summary_job returns and hands to the callback
\* (webpage_processor.py:208-212): the status, the summary (None: no such
\* key), the success flag, s3_path and presigned_url ("absent": no such key,
\* "none": None)
JobResult(st, summary, success, s3_path, presigned_url) ==
    [status |-> st, summary |-> summary, success |-> success,
     s3_path |-> s3_path, presigned_url |-> presigned_url]
NewResult == JobResult(St("absent"), None, "true", "absent", "absent")

IdleJob ==
    [pc |-> "idle", mode |-> "default", content |-> <<>>, callback |-> FALSE,
     chunks |-> <<>>, i |-> 1, all_summaries |-> <<>>, summary |-> None,
     result |-> NewResult, written |-> <<>>]

DriverIdle ==
    /\ store = [k \in Keys |-> NoRecord]
    /\ proc = [p \in Procs |-> IdleProc]
    /\ max_in_flight = 1
    /\ requests = CompleteRequests
    /\ put_may_fail = FALSE

JobIdle ==
    /\ DriverIdle
    /\ job = IdleJob

----------------------------------------------------------------------------
(* Recombination of the per-chunk results: process_debate_mode_chunks and  *)
(* process_default_mode_chunks (webpage_processor.py:402-475; the same     *)
(* code stands inline in process_webpage, lambda.py:367-417).              *)

\* a literal of the source, held as one symbol of a text
Lit(s) == <<Run(s, 1)>>
NL1 == <<Run(NL, 1)>>
NL2 == <<Run(NL, 2)>>

\* the texts of a sequence, one after the other
RECURSIVE CatAll(_)
CatAll(ts) == IF ts = <<>> THEN <<>> ELSE Cat(ts[1], CatAll(Tail(ts)))

\* sep.join(ts)
RECURSIVE Join(_, _)
Join(sep, ts) ==
    IF ts = <<>> THEN <<>>
    ELSE IF Len(ts) = 1 THEN ts[1]
    ELSE Cat(ts[1], Cat(sep, Join(sep, Tail(ts))))

\* str(i), i >= 0
DigitChars == <<"0", "1", "2", "3", "4", "5", "6", "7", "8", "9">>
RECURSIVE Decimal(_)
Decimal(i) ==
    IF i < Len(DigitChars) THEN <<Run(DigitChars[i + 1], 1)>>
    ELSE Cat(Decimal(i \div Len(DigitChars)),
             <<Run(DigitChars[(i % Len(DigitChars)) + 1], 1)>>)

\* t.replace("\n", "<br>")
RECURSIVE ReplaceNL(_)
ReplaceNL(t) ==
    IF t = <<>> THEN <<>>
    ELSE Cat(<<IF t[1].c = NL THEN Run("<br>", t[1].n) ELSE t[1]>>, ReplaceNL(Tail(t)))

\* mutant: only a None result is left out
KeepsHtml_NotNone(chunk_html) == ~chunk_html.is_none

\* line 424: if chunk_html
KeepsHtml(chunk_html) == NonEmpty(chunk_html)

\* line 425
SegmentOpen == "<h2>Segment "
SegmentBlock(i, chunk_html) ==
    CatAll(<<Lit(SegmentOpen), Decimal(i), Lit(" Analysis</h2>"), NL1, chunk_html>>)

\* lines 428-431
NoAnalyses == Lit("<div><p>Failed to generate any analyses.</p></div>")
DebateOutput(hs) ==
    IF hs # <<>>
    THEN CatAll(<<Lit("<div>"), NL1, Join(NL2, hs), NL1, Lit("</div>")>>)
    ELSE NoAnalyses

\* webpage_processor.py:448
MetaThreshold == 400000

\* mutant: combined summaries of exactly 400000 characters count as large
StillLarge_AtThreshold(len) == len >= MetaThreshold

\* line 448: the combined summaries are still large
StillLarge(len) == len > MetaThreshold

\* lines 462-465
UnifiedInstruction ==
    CatAll(<<Lit("Below are summaries of different segments of a longer text. "), NL1,
             Lit("Please create one unified, coherent summary that incorporates the key points from all segments:"),
             NL2>>)

\* lines 448-466: the text given to the meta-summary call
MetaPrompt(combined) ==
    IF StillLarge(TextLen(combined)) THEN combined ELSE Cat(UnifiedInstruction, combined)

\* mutant: an empty meta-summary counts as a failed call too
MetaFailed_OrEmpty(meta) == ~NonEmpty(meta)

\* lines 452 and 468: if meta_summary is None
MetaFailed(meta) == meta.is_none

\* lines 452-459 and 468-475
DefaultOutput(meta, combined) ==
    IF MetaFailed(meta)
    THEN CatAll(<<Lit("<div>"), ReplaceNL(combined), Lit("</div>")>>)
    ELSE CatAll(<<Lit("<div><h1>Executive Summary</h1>"), meta.text,
                  Lit("<h1>Detailed Summaries</h1>"), ReplaceNL(combined), Lit("</div>")>>)

\* a call of summarize_text: its arguments, and what it returned
Call(t, m, html, temperature, returned) ==
    [text |-> t, mode |-> m, html_output |-> html, temperature |-> temperature,
     returned |-> returned]

RecombineIdle ==
    /\ rc_fn = "none"
    /\ chunk_list = <<>>
    /\ combined_summaries = <<>>
    /\ chunk_i = 1
    /\ html_summaries = <<>>
    /\ meta_summary = None
    /\ completions = <<>>
    /\ output = None
    /\ rc_pc = "idle"

----------------------------------------------------------------------------
(* SpecClient: summarize_text against a backend stub.                     *)

ClientIdle ==
    /\ mode = "default"
    /\ html_output = TRUE
    /\ max_retries = 0
    /\ stub_failures = 0
    /\ system_prompt = NoPrompt
    /\ attempt = 0
    /\ full_response = <<>>
    /\ result = None
    /\ st_pc = "idle"
    /\ calls = 0
    /\ sent = <<>>
    /\ dropped = FALSE
    /\ slept = 0
    /\ waits = <<>>

ChunkIdle ==
    /\ text = <<>>
    /\ max_chunk_size = 1
    /\ overlap = 0
    /\ start_pos = 0
    /\ end_pos = 0
    /\ chunks = <<>>
    /\ ct_pc = "idle"

\* The stub fails its first stub_failures calls (each after delivering any
\* number of events, with any error kind) and completes every later one.
InitClient ==
    /\ mode \in ModeInstructions \cup {"other"}
    /\ html_output \in BOOLEAN
    /\ max_retries \in 0..MaxRetries
    /\ stub_failures \in 0..(MaxRetries + 1)
    /\ system_prompt = NoPrompt
    /\ attempt = 0
    /\ full_response = <<>>
    /\ result = None
    /\ st_pc = "call"
    /\ calls = 0
    /\ sent = <<>>
    /\ dropped = FALSE
    /\ slept = 0
    /\ waits = <<>>
    /\ ChunkIdle
    /\ JobIdle
    /\ RecombineIdle

\* lines 100-186: the client object, the system prompt, the user prompt
ClientCall ==
    /\ st_pc = "call"
    /\ system_prompt' = SelectPrompt(mode, html_output)
    /\ st_pc' = IF SelectPrompt(mode, html_output).raised THEN "raised" ELSE "loop"
    /\ UNCHANGED <<clientArgs, attempt, full_response, result, calls, sent, dropped, slept, waits>>
    /\ UNCHANGED <<chunkVars, jobVars, recombineVars>>

\* lines 188-201: the next attempt opens a stream
OpenStream ==
    /\ st_pc = "loop"
    /\ MoreAttempts(attempt, max_retries)
    /\ calls' = calls + 1
    /\ sent' = <<>>
    /\ full_response' = NewBuffer(full_response)
    /\ st_pc' = "stream"
    /\ UNCHANGED <<clientArgs, system_prompt, attempt, result, dropped, slept, waits>>
    /\ UNCHANGED <<chunkVars, jobVars, recombineVars>>

\* lines 204-207: one event of the stream
StreamEvent ==
    /\ st_pc = "stream"
    /\ Len(sent) < MaxEvents
    /\ \E e \in Events :
         /\ sent' = Append(sent, e)
         /\ full_response' = Accumulate(full_response, e)
    /\ UNCHANGED <<clientArgs, system_prompt, attempt, result, st_pc, calls, dropped, slept, waits>>
    /\ UNCHANGED <<chunkVars, jobVars, recombineVars>>

\* line 210: the stream ran to completion
StreamComplete ==
    /\ st_pc = "stream"
    /\ calls > stub_failures
    /\ result' = Str(Strip(full_response))
    /\ st_pc' = "returned"
    /\ UNCHANGED <<clientArgs, system_prompt, attempt, full_response, calls, sent, dropped, slept, waits>>
    /\ UNCHANGED <<chunkVars, jobVars, recombineVars>>

\* lines 212-222: the request or the stream raised; wait, then the next attempt
StreamError ==
    /\ st_pc = "stream"
    /\ calls <= stub_failures
    /\ \E kind \in ErrorKinds :
         /\ slept' = slept + WaitAfter(kind)
         /\ waits' = Append(waits, [after |-> kind, seconds |-> WaitAfter(kind)])
    /\ dropped' = (dropped \/ TextOf(sent) # <<>>)
    /\ attempt' = attempt + 1
    /\ st_pc' = "loop"
    /\ UNCHANGED <<clientArgs, system_prompt, full_response, result, calls, sent>>
    /\ UNCHANGED <<chunkVars, jobVars, recombineVars>>

\* lines 224-225: the attempts are used up
Exhausted ==
    /\ st_pc = "loop"
    /\ ~MoreAttempts(attempt, max_retries)
    /\ result' = None
    /\ st_pc' = "returned"
    /\ UNCHANGED <<clientArgs, system_prompt, attempt, full_response, calls, sent, dropped, slept, waits>>
    /\ UNCHANGED <<chunkVars, jobVars, recombineVars>>

NextClient ==
    \/ ClientCall
    \/ OpenStream
    \/ StreamEvent
    \/ StreamComplete
    \/ StreamError
    \/ Exhausted

SpecClient == InitClient /\ [][NextClient]_vars

\* C7: when the backend fails on the first k attempts and succeeds on attempt
\* k+1, with k < max_retries, summarize_text returns the text of the
\* successful stream and has made exactly k+1 backend calls.
C7_RetryThenSuccess ==
    (st_pc = "returned" /\ stub_failures < max_retries)
        => /\ ~result.is_none
           /\ result = Str(Strip(TextOf(sent)))
           /\ calls = stub_failures + 1

C7_Witness ==
    /\ st_pc = "returned"
    /\ stub_failures = 2
    /\ max_retries = 3
    /\ calls = 3
    /\ result = Str(<<Run("a", 1)>>)

\* C8: when the backend fails on every attempt, summarize_text makes exactly
\* max_retries backend calls (whatever the mix of error kinds, for every
\* max_retries >= 0), returns None, and makes no further call.
C8_AllAttemptsFail ==
    (st_pc = "returned" /\ stub_failures >= max_retries)
        => /\ result = None
           /\ calls = max_retries
           /\ ~ENABLED OpenStream

C8_Witness ==
    /\ st_pc = "returned"
    /\ stub_failures > MaxRetries
    /\ max_retries = 3
    /\ calls = 3
    /\ slept = RateLimitWait + RetryWait + RetryWait
    /\ result = None

\* C9: no exception of summarize_text reaches its caller, whatever the
\* arguments and the backend do.
C9_NoExceptionEscapes == st_pc # "raised"

\* C10: no partial result: a returned text is the trimmed concatenation of
\* the text deltas of the attempt whose stream ran to completion, and of no
\* other attempt; until the return there is no result.
C10_NoPartialResult ==
    /\ st_pc # "returned" => result = None
    /\ (st_pc = "returned" /\ ~result.is_none)
          => /\ calls > stub_failures
             /\ result.text = Strip(TextOf(sent))

\* a failed attempt had delivered text, the completed one " a"
C10_Witness ==
    /\ st_pc = "returned"
    /\ dropped
    /\ sent = <<TextDelta(<<Run(SP, 1)>>), TextDelta(<<Run("a", 1)>>)>>
    /\ result = Str(<<Run("a", 1)>>)

\* C33: summarize_text waits only between a failed attempt and the next
\* attempt, 60 seconds after a rate-limit error and 5 seconds after a
\* timeout or any other error; after the failure of the last attempt it
\* returns without a further wait, so a run of f failed attempts that ends in
\* failure has waited f - 1 times.
C33_WaitsBetweenAttempts ==
    /\ \A k \in 1..Len(waits) :
          waits[k].seconds = (IF waits[k].after = "rate_limit" THEN 60 ELSE 5)
    /\ st_pc = "returned" => Len(waits) = Max(calls - 1, 0)

\* C29: the system prompt is a function of (mode, html_output) only: debate
\* with html_output uses the debate HTML variant and never gets the generic
\* HTML suffix; debate without html_output uses the plain debate prompt;
\* default uses the base summarization prompt, with the generic HTML suffix
\* exactly when html_output is true.
C29_PromptByMode ==
    (st_pc \notin {"idle", "call"} /\ mode \in {"default", "debate"})
        => /\ ~system_prompt.raised
           /\ system_prompt.key =
                 (IF mode = "default" THEN "default"
                  ELSE IF html_output THEN "debate_html" ELSE "debate")
           /\ system_prompt.html_suffix = (mode = "default" /\ html_output)

\* a debate call with html_output went out with the debate HTML variant alone
C29_Witness ==
    /\ st_pc = "returned"
    /\ mode = "debate"
    /\ html_output
    /\ calls > 0
    /\ system_prompt = [raised |-> FALSE, key |-> "debate_html", html_suffix |-> FALSE]

----------------------------------------------------------------------------
(* SpecRecombine: the two recombination functions against a stub of        *)
(* summarize_text that returns None, the empty text or a text.             *)

ChunkTexts == { <<Run("a", 1)>>, <<Run("b", 1)>> }
ChunkLists == UNION { [1..n -> ChunkTexts] : n \in 0..MaxChunks }
HtmlResults == CompletionResults \cup { Str(<<Run("t", 1)>>) }

\* combined summaries: none, a short text with line breaks, and texts of
\* exactly 400000 and of 400001 characters
CombinedInputs ==
    { <<>>,
      <<Run("s", 1), Run(NL, 2), Run("s", 1)>>,
      <<Run("s", MetaThreshold - 2), Run(NL, 2)>>,
      <<Run("s", MetaThreshold - 1), Run(NL, 2)>> }

InitRecombine ==
    /\ rc_fn \in {"process_debate_mode_chunks", "process_default_mode_chunks"}
    /\ chunk_list \in (IF rc_fn = "process_debate_mode_chunks" THEN ChunkLists ELSE {<<>>})
    /\ combined_summaries \in
           (IF rc_fn = "process_default_mode_chunks" THEN CombinedInputs ELSE {<<>>})
    /\ chunk_i = 1
    /\ html_summaries = <<>>
    /\ meta_summary = None
    /\ completions = <<>>
    /\ output = None
    /\ rc_pc = "call"
    /\ ChunkIdle
    /\ ClientIdle
    /\ JobIdle

\* process_debate_mode_chunks, lines 418-425: one iteration of the loop
DebateChunk ==
    /\ rc_pc = "call"
    /\ rc_fn = "process_debate_mode_chunks"
    /\ chunk_i <= Len(chunk_list)
    /\ \E chunk_html \in HtmlResults :
         /\ completions' = Append(completions,
                Call(chunk_list[chunk_i], "debate", TRUE, "0", chunk_html))
         /\ html_summaries' = IF KeepsHtml(chunk_html)
                              THEN Append(html_summaries, SegmentBlock(chunk_i, chunk_html.text))
                              ELSE html_summaries
    /\ chunk_i' = chunk_i + 1
    /\ UNCHANGED <<rc_fn, chunk_list, combined_summaries, meta_summary, output, rc_pc>>
    /\ UNCHANGED <<chunkVars, clientVars, jobVars>>

\* process_debate_mode_chunks, lines 427-431: the loop is over
DebateReturn ==
    /\ rc_pc = "call"
    /\ rc_fn = "process_debate_mode_chunks"
    /\ chunk_i > Len(chunk_list)
    /\ output' = Str(DebateOutput(html_summaries))
    /\ rc_pc' = "returned"
    /\ UNCHANGED <<rc_fn, chunk_list, combined_summaries, chunk_i, html_summaries,
                   meta_summary, completions>>
    /\ UNCHANGED <<chunkVars, clientVars, jobVars>>

\* process_default_mode_chunks, lines 448-450 and 461-466: the meta-summary call
MetaCall ==
    /\ rc_pc = "call"
    /\ rc_fn = "process_default_mode_chunks"
    /\ \E r \in CompletionResults :
         /\ completions' = Append(completions,
                Call(MetaPrompt(combined_summaries), "default", TRUE, "0.5", r))
         /\ meta_summary' = r
    /\ rc_pc' = "meta_done"
    /\ UNCHANGED <<rc_fn, chunk_list, combined_summaries, chunk_i, html_summaries, output>>
    /\ UNCHANGED <<chunkVars, clientVars, jobVars>>

\* process_default_mode_chunks, lines 452-459 and 468-475
DefaultReturn ==
    /\ rc_pc = "meta_done"
    /\ output' = Str(DefaultOutput(meta_summary, combined_summaries))
    /\ rc_pc' = "returned"
    /\ UNCHANGED <<rc_fn, chunk_list, combined_summaries, chunk_i, html_summaries,
                   meta_summary, completions>>
    /\ UNCHANGED <<chunkVars, clientVars, jobVars>>

NextRecombine ==
    \/ DebateChunk
    \/ DebateReturn
    \/ MetaCall
    \/ DefaultReturn

SpecRecombine == InitRecombine /\ [][NextRecombine]_vars

\* the chunks whose HTML call returned a text that is not empty
Succeeded == { i \in 1..Len(completions) : NonEmpty(completions[i].returned) }

\* the members of a set of numbers in ascending order
RECURSIVE Ascending(_)
Ascending(S) ==
    IF S = {} THEN <<>>
    ELSE LET least == CHOOSE k \in S : \A j \in S : k <= j
         IN <<least>> \o Ascending(S \ {least})

\* the segment headings in a text
Headings(t) == Cardinality({ j \in 1..Len(t) : t[j].c = SegmentOpen })

\* C18: debate mode: every chunk gets one HTML call, in order; the output is
\* one wrapping <div> holding, for each chunk whose HTML call succeeded (it
\* returned a text that is not empty), one block headed
\* <h2>Segment i Analysis</h2> with i the chunk's 1-based index, in ascending
\* order (n blocks when all succeed); the placeholder when every call failed.
C18_DebateBlocks ==
    (rc_fn = "process_debate_mode_chunks" /\ rc_pc = "returned")
        => LET order == Ascending(Succeeded)
               blocks == [j \in 1..Len(order) |->
                            SegmentBlock(order[j], completions[order[j]].returned.text)]
           IN /\ Len(completions) = Len(chunk_list)
              /\ \A i \in 1..Len(chunk_list) :
                    /\ completions[i].text = chunk_list[i]
                    /\ completions[i].html_output
                    /\ completions[i].mode = "debate"
              /\ Headings(output.text) = Cardinality(Succeeded)
              /\ IF Succeeded = {}
                 THEN output = Str(NoAnalyses)
                 ELSE output = Str(CatAll(<<Lit("<div>"), NL1, Join(NL2, blocks), NL1,
                                            Lit("</div>")>>))

\* three chunks, the HTML call of the second failed: segments 1 and 3
C18_Witness ==
    /\ rc_pc = "returned"
    /\ Len(chunk_list) = 3
    /\ completions[2].returned = None
    /\ output = Str(CatAll(<<Lit("<div>"), NL1,
                             Lit("<h2>Segment "), <<Run("1", 1)>>, Lit(" Analysis</h2>"), NL1,
                             <<Run("s", 1)>>, NL2,
                             Lit("<h2>Segment "), <<Run("3", 1)>>, Lit(" Analysis</h2>"), NL1,
                             <<Run("t", 1)>>, NL1, Lit("</div>")>>))

\* C19: default mode: exactly one meta-summary call is made; it receives the
\* combined summaries wrapped in the unified-summary instruction when they
\* are at most 400000 characters long, and the combined summaries alone when
\* they are longer.
C19_MetaPrompt ==
    rc_fn = "process_default_mode_chunks"
        => /\ rc_pc = "call" => completions = <<>>
           /\ rc_pc \in {"meta_done", "returned"}
                => /\ Len(completions) = 1
                   /\ completions[1].html_output
                   /\ completions[1].text =
                        (IF TextLen(combined_summaries) <= 400000
                         THEN Cat(UnifiedInstruction, combined_summaries)
                         ELSE combined_summaries)

\* combined summaries of exactly 400000 characters went out wrapped
C19_Witness ==
    /\ rc_fn = "process_default_mode_chunks"
    /\ rc_pc = "returned"
    /\ TextLen(combined_summaries) = 400000
    /\ Len(completions) = 1
    /\ completions[1].text # combined_summaries
    /\ SubSeq(completions[1].text, Len(UnifiedInstruction) + 1, Len(completions[1].text))
           = combined_summaries

\* C20: default mode: when the meta-summary call fails (summarize_text
\* returns None) the function still returns an output, the combined summaries
\* with line breaks as markup; when it succeeds the output is the Executive
\* Summary section holding the meta-summary, then the Detailed Summaries
\* section holding the combined summaries with line breaks as markup.
C20_MetaFallback ==
    (rc_fn = "process_default_mode_chunks" /\ rc_pc = "returned")
        => /\ ~output.is_none
           /\ meta_summary = completions[1].returned
           /\ IF meta_summary = None
              THEN output.text = CatAll(<<Lit("<div>"), ReplaceNL(combined_summaries),
                                          Lit("</div>")>>)
              ELSE output.text = CatAll(<<Lit("<div><h1>Executive Summary</h1>"),
                                          meta_summary.text,
                                          Lit("<h1>Detailed Summaries</h1>"),
                                          ReplaceNL(combined_summaries), Lit("</div>")>>)

\* the meta-summary call failed: "s\n\ns" came back as <div>s<br><br>s</div>
C20_Witness ==
    /\ rc_fn = "process_default_mode_chunks"
    /\ rc_pc = "returned"
    /\ completions[1].returned = None
    /\ combined_summaries = <<Run("s", 1), Run(NL, 2), Run("s", 1)>>
    /\ output = Str(<<Run("<div>", 1), Run("s", 1), Run("<br>", 2), Run("s", 1),
                      Run("</div>", 1)>>)

----------------------------------------------------------------------------
(* SpecJob: process_summary_job against stubs of summarize_text, of        *)
(* chunk_text (it returns some list of chunks) and of the archive.         *)

\* save_html_to_s3 (lines 156-176) with generate_presigned_url (lines 38-47):
\* both succeed; the link cannot be issued (ClientError); the upload fails
ArchiveResults ==
    { [s3_path |-> "path", presigned_url |-> "url"],
      [s3_path |-> "path", presigned_url |-> "none"],
      [s3_path |-> "none", presigned_url |-> "none"] }

\* the lists the chunk_text stub returns
JobChunkLists == ChunkLists \ {<<>>}

\* lines 307-313 and 364-369: mode and temperature of a call
CallMode(m) == IF m = "debate" THEN "debate" ELSE "default"

\* mutant: no call names a temperature
Temperature_Default(m) == "0.5"

Temperature(m) == IF m = "debate" THEN "0" ELSE "0.5"

\* mutant: an empty chunk summary is left out as well
KeepsSummary_NonEmpty(chunk_summary) == NonEmpty(chunk_summary)

\* line 371: if chunk_summary is None: continue
KeepsSummary(chunk_summary) == ~chunk_summary.is_none

\* line 376
SegmentSummary(i, chunk_summary) ==
    CatAll(<<Lit("--- Segment "), Decimal(i), Lit(" ---"), NL2, chunk_summary>>)

\* line 395
NoSummaries == Lit("Failed to generate any summaries.")
OneChunkOutput(all) == IF all # <<>> THEN all[1] ELSE NoSummaries

\* mutant: every mode gets the meta-summary
RecombineWith_Meta(m) == "process_default_mode_chunks"

\* lines 388-392: the recombination function of a mode
RecombineWith(m) ==
    IF m = "debate" THEN "process_debate_mode_chunks" ELSE "process_default_mode_chunks"

\* mutant: the second pass takes as many chunks as the first pass summarized
SecondPassChunks_Summarized(cs, all) == SubSeq(cs, 1, Len(all))

\* line 389: process_debate_mode_chunks is given the chunks, not all_summaries
SecondPassChunks(cs, all) == cs

\* update_status_callback(page_id, result, mode), where one is given
Callback(st) == IF job.callback THEN Append(job.written, st) ELSE job.written

InitJob ==
    /\ job \in { [IdleJob EXCEPT !.pc = "call", !.mode = m, !.content = t, !.callback = c] :
                    m \in NamedModes, t \in JobTexts, c \in BOOLEAN }
    /\ DriverIdle
    /\ ChunkIdle
    /\ ClientIdle
    /\ RecombineIdle

\* process_summary_job, lines 208-217 and 241
ProcessSummaryJob ==
    /\ job.pc = "call"
    /\ job' = [job EXCEPT !.pc = IF FitsOneCall(TextLen(job.content))
                                 THEN "single" ELSE "chunking"]
    /\ UNCHANGED <<driverVars, chunkVars, clientVars, recombineVars>>

\* process_single_chunk, lines 291-313: the one call
ProcessSingleChunk ==
    /\ job.pc = "single"
    /\ \E r \in CompletionResults :
         /\ completions' = Append(completions,
                Call(job.content, CallMode(job.mode), TRUE, Temperature(job.mode), r))
         /\ job' = [job EXCEPT !.pc = "single_done", !.summary = r]
    /\ UNCHANGED <<rc_fn, chunk_list, combined_summaries, chunk_i, html_summaries,
                   meta_summary, output, rc_pc>>
    /\ UNCHANGED <<driverVars, chunkVars, clientVars>>

\* process_summary_job, lines 221-238: the summary is archived, or the job
\* has failed
ArchiveSingle ==
    /\ job.pc = "single_done"
    /\ IF NonEmpty(job.summary)
       THEN \E s3_result \in ArchiveResults :
                job' = [job EXCEPT !.pc = "final",
                           !.result = JobResult(St("completed"), None, "true",
                                                s3_result.s3_path,
                                                s3_result.presigned_url)]
       ELSE job' = [job EXCEPT !.pc = "final",
                       !.result = JobResult(St("failed"), None, "false",
                                            "absent", "absent")]
    /\ UNCHANGED <<driverVars, chunkVars, clientVars, recombineVars>>

\* process_multiple_chunks, lines 342-353: chunk_text returns
ProcessMultipleChunks ==
    /\ job.pc = "chunking"
    /\ \E cs \in JobChunkLists :
         job' = [job EXCEPT !.pc = "loop", !.chunks = cs, !.i = 1,
                            !.all_summaries = <<>>, !.result = NewResult]
    /\ UNCHANGED <<driverVars, chunkVars, clientVars, recombineVars>>

\* lines 355-376: one iteration of the loop over the chunks
SummarizeChunk ==
    /\ job.pc = "loop"
    /\ job.i <= Len(job.chunks)
    /\ \E chunk_summary \in CompletionResults :
         /\ completions' = Append(completions,
                Call(job.chunks[job.i], CallMode(job.mode), FALSE,
                     Temperature(job.mode), chunk_summary))
         /\ job' = [job EXCEPT
                !.written = Callback(ChunkSt(job.i, Len(job.chunks))),
                !.result.status = IF job.callback
                                  THEN ChunkSt(job.i, Len(job.chunks)) ELSE @,
                !.all_summaries = IF KeepsSummary(chunk_summary)
                                  THEN Append(@, SegmentSummary(job.i, chunk_summary.text))
                                  ELSE @,
                !.i = @ + 1]
    /\ UNCHANGED <<rc_fn, chunk_list, combined_summaries, chunk_i, html_summaries,
                   meta_summary, output, rc_pc>>
    /\ UNCHANGED <<driverVars, chunkVars, clientVars>>

\* lines 379-392: several chunks; the status, then the call of
\* process_debate_mode_chunks or process_default_mode_chunks
CallRecombination ==
    /\ job.pc = "loop"
    /\ job.i > Len(job.chunks)
    /\ Len(job.chunks) > 1
    /\ job' = [job EXCEPT !.pc = "recombining",
                          !.written = Callback(St("creating_meta_summary")),
                          !.result.status = IF job.callback
                                            THEN St("creating_meta_summary") ELSE @]
    /\ rc_fn' = RecombineWith(job.mode)
    /\ chunk_list' = IF rc_fn' = "process_debate_mode_chunks"
                     THEN SecondPassChunks(job.chunks, job.all_summaries) ELSE <<>>
    /\ combined_summaries' = IF rc_fn' = "process_debate_mode_chunks" THEN <<>>
                             ELSE Join(NL2, job.all_summaries)
    /\ chunk_i' = 1
    /\ html_summaries' = <<>>
    /\ meta_summary' = None
    /\ output' = None
    /\ rc_pc' = "call"
    /\ UNCHANGED <<completions, driverVars, chunkVars, clientVars>>

\* lines 389-392 and 398-399: the recombined output is the summary
Recombined ==
    /\ job.pc = "recombining"
    /\ rc_pc = "returned"
    /\ job' = [job EXCEPT !.pc = "chunks_done", !.result.summary = output,
                          !.result.status = St("completed")]
    /\ UNCHANGED <<driverVars, chunkVars, clientVars, recombineVars>>

\* lines 393-399: only one chunk was processed
OneChunk ==
    /\ job.pc = "loop"
    /\ job.i > Len(job.chunks)
    /\ Len(job.chunks) <= 1
    /\ job' = [job EXCEPT !.pc = "chunks_done",
                          !.result.summary = Str(OneChunkOutput(job.all_summaries)),
                          !.result.status = St("completed")]
    /\ UNCHANGED <<driverVars, chunkVars, clientVars, recombineVars>>

\* process_summary_job, lines 252-261: the summary is archived and dropped
\* from the result
ArchiveChunks ==
    /\ job.pc = "chunks_done"
    /\ IF job.result.success = "true" /\ NonEmpty(job.result.summary)
       THEN \E s3_result \in ArchiveResults :
                job' = [job EXCEPT !.pc = "final",
                           !.result.s3_path = s3_result.s3_path,
                           !.result.presigned_url = s3_result.presigned_url,
                           !.result.summary = None]
       ELSE job' = [job EXCEPT !.pc = "final"]
    /\ UNCHANGED <<driverVars, chunkVars, clientVars, recombineVars>>

\* lines 264-267: the final status goes to the callback, the result is
\* returned
FinalStatus ==
    /\ job.pc = "final"
    /\ job' = [job EXCEPT !.pc = "returned", !.written = Callback(job.result.status)]
    /\ UNCHANGED <<driverVars, chunkVars, clientVars, recombineVars>>

NextJob ==
    \/ ProcessSummaryJob
    \/ ProcessSingleChunk
    \/ ArchiveSingle
    \/ ProcessMultipleChunks
    \/ SummarizeChunk
    \/ CallRecombination
    \/ DebateChunk
    \/ DebateReturn
    \/ MetaCall
    \/ DefaultReturn
    \/ Recombined
    \/ OneChunk
    \/ ArchiveChunks
    \/ FinalStatus

SpecJob == InitJob /\ [][NextJob]_vars

\* the calls among the first n that returned a text that is not empty
Returned(n) == { k \in 1..Min(n, Len(completions)) : NonEmpty(completions[k].returned) }

C25_SummaryNotLost ==
    (job.pc = "returned" /\ job.result.status.tag = "completed")
        => (job.result.presigned_url = "url" \/ NonEmpty(job.result.summary))

\* C27: every call site of summarize_text treats a result that is None or
\* empty as a failed completion: the single call fails the job, the loop over
\* the chunks records a summary only for a text that is not empty, the debate
\* HTML pass keeps a block only for such a text, and the meta-summary step
\* falls back to the combined summaries.
C27_NoTextIsFailure ==
    /\ (job.pc = "final" /\ job.chunks = <<>> /\ ~NonEmpty(job.summary))
          => job.result.status.tag = "failed"
    /\ job.pc = "loop"
          => Len(job.all_summaries) = Cardinality(Returned(Len(job.chunks)))
    /\ (job.pc = "recombining" /\ rc_fn = "process_debate_mode_chunks")
          => Len(html_summaries)
               = Cardinality(Returned(Len(completions)) \ Returned(Len(job.chunks)))
    /\ (job.pc = "recombining" /\ rc_pc = "returned"
            /\ rc_fn = "process_default_mode_chunks" /\ ~NonEmpty(meta_summary))
          => output.text = CatAll(<<Lit("<div>"), ReplaceNL(combined_summaries),
                                    Lit("</div>")>>)

\* the calls of the job that were given the text c
CallsWith(c) == { k \in 1..Len(completions) : completions[k].text = c }

\* the places of the chunk list that hold the text c
PlacesOf(c) == { j \in 1..Len(job.chunks) : job.chunks[j] = c }

\* the texts of the calls a to b, in order
TextsPassed(a, b) == [k \in 1..(b - a + 1) |-> completions[a + k - 1].text]

\* the passes over the chunks: debate mode with several chunks makes a
\* second one for the HTML output
Passes == IF job.mode = "debate" /\ Len(job.chunks) > 1 THEN 2 ELSE 1

C32_TemperatureAndHtml ==
    \A k \in 1..Len(completions) :
        /\ completions[k].temperature = (IF job.mode = "debate" THEN "0" ELSE "0.5")
        /\ completions[k].html_output
              = (IF job.chunks = <<>> THEN TRUE ELSE k > Len(job.chunks))

\* a default run of two chunks after its meta-summary call, and the calls
\* were made as the claim says: two without HTML, one with
C32_Witness ==
    /\ job.pc = "chunks_done"
    /\ job.mode = "default"
    /\ Len(job.chunks) = 2
    /\ Len(completions) = 3
    /\ ~completions[1].html_output
    /\ completions[3].html_output
    /\ completions[3].temperature = "0.5"

\* the blocks of the chunks whose second-pass call, the call n + i, returned
\* a text that is not empty
SecondPassBlocks(n) ==
    LET order == Ascending({ i \in 1..n : NonEmpty(completions[n + i].returned) })
    IN [j \in 1..Len(order) |->
           SegmentBlock(order[j], completions[n + order[j]].returned.text)]

\* C36: in a debate run over several chunks the final output and the final
\* status are decided by the results of the second (HTML) pass alone: what
\* the first pass returned, text or failure, does not enter them; the run
\* makes 2n completion calls for n chunks, a default run n + 1.
C36_SecondPassDecides ==
    (job.pc = "chunks_done" /\ Len(job.chunks) > 1)
        => LET n == Len(job.chunks)
           IN IF job.mode = "debate"
              THEN /\ Len(completions) = 2 * n
                   /\ job.result.summary = Str(DebateOutput(SecondPassBlocks(n)))
                   /\ job.result.status = St("completed")
              ELSE Len(completions) = n + 1

\* every first-pass call failed, both second-pass calls returned a text: the
\* output holds the two segments
C36_Witness ==
    /\ job.pc = "chunks_done"
    /\ job.mode = "debate"
    /\ Len(job.chunks) = 2
    /\ Len(completions) = 4
    /\ completions[1].returned = None
    /\ completions[2].returned = None
    /\ job.all_summaries = <<>>
    /\ Headings(job.result.summary.text) = 2

----------------------------------------------------------------------------
(* Spec: concurrent requests through lambda_handler.                       *)

Init ==
    /\ store = [k \in Keys |-> NoRecord]
    /\ proc = [p \in Procs |-> IdleProc]
    /\ max_in_flight \in 1..NumProcs
    /\ requests = CompleteRequests
    /\ put_may_fail = FALSE
    /\ job = IdleJob
    /\ ChunkIdle
    /\ ClientIdle
    /\ RecombineIdle

\* invocation p has ended with response r: only what the handler read, what
\* it returned and the calls it made remain
Ended(p, r, writes) ==
    [IdleProc EXCEPT !.pc = "done", !.request = proc[p].request,
                     !.url = proc[p].url, !.mode = proc[p].mode,
                     !.status = proc[p].status, !.n_extract = proc[p].n_extract,
                     !.n_complete = proc[p].n_complete,
                     !.n_writes = proc[p].n_writes + writes, !.response = r]

InFlight(p) == proc[p].pc \notin {"idle", "done"}

\* the invocations once p has moved on to next: of the invocations that have
\* returned, the last one is kept
SetProc(p, next) ==
    [q \in Procs |-> IF q = p THEN next
                     ELSE IF next.pc = "done" /\ proc[q].pc = "done" THEN IdleProc
                     ELSE proc[q]]
KeyOfProc(p) == KeyOf(proc[p].url, proc[p].mode)
\* the invocations at work for a key
Running(k) == { p \in Procs : InFlight(p) /\ KeyOfProc(p) = k }

\* lines 104-116: put_object stores the record, or raises
PutResults == IF put_may_fail THEN BOOLEAN ELSE {TRUE}

\* update_status_file (lines 85-116) by invocation p; no caller looks at
\* what it returns
Write(p, rec) ==
    \E stored \in PutResults :
        store' = IF stored THEN [store EXCEPT ![KeyOfProc(p)] = rec] ELSE store

\* lambda_handler, lines 445-522 and 533-542: a request of one of the kinds,
\* with page_url u and mode m where it has them, taken by the first free
\* invocation.  The body is parsed (a body that is no JSON is answered 400, a
\* JSON body that is no object raises TypeError at line 471 or 472), page_url
\* is looked for, the stored record is returned if there is one, the api_key
\* is looked for, and process_webpage is called.
LambdaHandler(p, kind, u, m) ==
    /\ ~InFlight(p)
    /\ \A q \in Procs : q < p => InFlight(q)
    /\ Cardinality({ q \in Procs : InFlight(q) }) < max_in_flight
    /\ <<kind, m>> \in requests
    /\ kind \notin HasPageUrl => m = "default"
    /\ LET status == IF kind \in HasPageUrl THEN store[KeyOf(u, m)] ELSE NoRecord
           fresh == [IdleProc EXCEPT !.request = kind, !.url = u, !.mode = m,
                                     !.status = status]
           answer(r) == [fresh EXCEPT !.pc = "done", !.response = r]
       IN proc' = SetProc(p,
              IF kind = "invalid_json"
              THEN answer(ClientError("Invalid JSON in request body"))
              ELSE IF kind = "not_object"
              THEN answer(Raised("TypeError"))
              ELSE IF kind = "no_page_url"
              THEN answer(ClientError("Missing required parameter: page_url"))
              ELSE IF HandlerReturnsStored(status)
              THEN answer(Response(200, status))
              ELSE IF kind = "no_api_key"
              THEN answer(ClientError("API key required for summarization"))
              ELSE [fresh EXCEPT !.pc = "pw_check"])
    /\ UNCHANGED <<store, max_in_flight, requests, put_may_fail, job, chunkVars, clientVars, recombineVars>>

\* process_webpage, lines 231-255: the status check
CheckStatus(p) ==
    /\ proc[p].pc = "pw_check"
    /\ LET status == store[KeyOfProc(p)] IN
       proc' = SetProc(p,
           IF WorkerCached(status)
           THEN Ended(p, HandlerResult(Rec(St("absent"), status.summary, "true",
                                           "Summary retrieved from cache")), 0)
           ELSE IF WorkerInProgress(status)
           THEN Ended(p, HandlerResult(Rec(St("processing"), None, "true",
                                           "Processing in progress")), 0)
           ELSE [proc[p] EXCEPT !.pc = "pw_start"])
    /\ UNCHANGED <<store, max_in_flight, requests, put_may_fail, job, chunkVars, clientVars, recombineVars>>

\* lines 257-268: status processing is stored
StartProcessing(p) ==
    /\ proc[p].pc = "pw_start"
    /\ Write(p, ProcessingStatus)
    /\ proc' = [proc EXCEPT ![p].pc = "extract", ![p].n_writes = @ + 1]
    /\ UNCHANGED <<max_in_flight, requests, put_may_fail, job, chunkVars, clientVars, recombineVars>>

\* line 272: the extraction collaborator fails with a message, or returns a
\* text
Extract(p) ==
    /\ proc[p].pc = "extract"
    /\ \/ \E message \in ExtractMessages :
            proc' = [proc EXCEPT ![p].pc = "extract_failed", ![p].n_extract = @ + 1,
                                 ![p].message = message]
       \/ \E t \in JobTexts :
            proc' = [proc EXCEPT ![p].pc = "extracted", ![p].n_extract = @ + 1,
                                 ![p].content = t]
    /\ UNCHANGED <<store, max_in_flight, requests, put_may_fail, job, chunkVars, clientVars, recombineVars>>

\* lines 274-282, then 522-532: failed is stored and error_status returned
ExtractionFailed(p) ==
    /\ proc[p].pc = "extract_failed"
    /\ Write(p, ErrorStatus(proc[p].message))
    /\ proc' = SetProc(p, Ended(p, HandlerResult(ErrorStatus(proc[p].message)), 1))
    /\ UNCHANGED <<max_in_flight, requests, put_may_fail, job, chunkVars, clientVars, recombineVars>>

\* lines 284-302 (and 327-334): summarizing is stored; the length decides
Extracted(p) ==
    /\ proc[p].pc = "extracted"
    /\ Write(p, Result(St("summarizing"), None, "true"))
    /\ proc' = [proc EXCEPT ![p].n_writes = @ + 1,
                            ![p].pc = IF FitsOneCall(TextLen(proc[p].content))
                                      THEN "single" ELSE "chunk_call"]
    /\ UNCHANGED <<max_in_flight, requests, put_may_fail, job, chunkVars, clientVars, recombineVars>>

\* lines 306-312: the one completion call of a short text
SummarizeSingle(p) ==
    /\ proc[p].pc = "single"
    /\ \E r \in CompletionResults :
         proc' = [proc EXCEPT ![p].pc = "single_done", ![p].n_complete = @ + 1,
                              ![p].summary = r]
    /\ UNCHANGED <<store, max_in_flight, requests, put_may_fail, job, chunkVars, clientVars, recombineVars>>

\* lines 314-325, 426, then 522-532: completed or failed is stored and returned
FinishSingle(p) ==
    /\ proc[p].pc = "single_done"
    /\ LET res == IF NonEmpty(proc[p].summary)
                  THEN Result(St("completed"), proc[p].summary, "true")
                  ELSE Result(St("failed"), None, "false")
       IN /\ Write(p, res)
          /\ proc' = SetProc(p, Ended(p, HandlerResult(res), 1))
    /\ UNCHANGED <<max_in_flight, requests, put_may_fail, job, chunkVars, clientVars, recombineVars>>

\* line 330, chunk_text lines 230-234: the call of chunk_text(text_content)
ChunkTextCall(p) ==
    /\ proc[p].pc = "chunk_call"
    /\ proc' = [proc EXCEPT ![p].start_pos = 0, ![p].chunks = <<>>,
                            ![p].pc = IF LoopContinues(proc[p].content, 0)
                                      THEN "chunk_loop" ELSE "chunked"]
    /\ UNCHANGED <<store, max_in_flight, requests, put_may_fail, job, chunkVars, clientVars, recombineVars>>

\* chunk_text lines 236-253: one iteration of its loop.  The list keeps
\* growing in the code; the model records its first MaxIter chunks, so a
\* loop that never ends shows as this step repeating without a change.
ChunkTextLoop(p) ==
    /\ proc[p].pc = "chunk_loop"
    /\ LET it == ChunkIter(proc[p].content, DefaultMaxChunkSize, DefaultOverlap,
                           proc[p].start_pos)
       IN proc' = [proc EXCEPT ![p].chunks = IF Len(@) < MaxIter
                                             THEN Append(@, it.chunk) ELSE @,
                               ![p].start_pos = it.start_pos,
                               ![p].pc = IF LoopContinues(proc[p].content, it.start_pos)
                                         THEN "chunk_loop" ELSE "chunked"]
    /\ UNCHANGED <<store, max_in_flight, requests, put_may_fail, job, chunkVars, clientVars, recombineVars>>

\* the steps of invocation p once lambda_handler has called process_webpage
Work(p) ==
    \/ CheckStatus(p)
    \/ StartProcessing(p)
    \/ Extract(p)
    \/ ExtractionFailed(p)
    \/ Extracted(p)
    \/ SummarizeSingle(p)
    \/ FinishSingle(p)
    \/ ChunkTextCall(p)
    \/ ChunkTextLoop(p)

Next ==
    \/ \E p \in Procs, kind \in RequestKinds, u \in Urls, m \in JobModes :
          LambdaHandler(p, kind, u, m)
    \/ \E p \in Procs : Work(p)

Spec == Init /\ [][Next]_vars

\* the runtime runs every invocation it has started
FairSpec == Spec /\ \A p \in Procs : WF_vars(Work(p))

\* SpecRequests: requests of every kind and with every mode value, handled
\* one at a time
AllRequests ==
    { r \in RequestKinds \X JobModes : r[1] \notin HasPageUrl => r[2] = "default" }

InitRequests ==
    /\ store = [k \in Keys |-> NoRecord]
    /\ proc = [p \in Procs |-> IdleProc]
    /\ max_in_flight = 1
    /\ requests = AllRequests
    /\ put_may_fail = FALSE
    /\ job = IdleJob
    /\ ChunkIdle
    /\ ClientIdle
    /\ RecombineIdle

SpecRequests == InitRequests /\ [][Next]_vars

\* SpecFaulty: complete requests, handled one at a time, against a status
\* store whose put_object can raise
InitFaulty ==
    /\ store = [k \in Keys |-> NoRecord]
    /\ proc = [p \in Procs |-> IdleProc]
    /\ max_in_flight = 1
    /\ requests = CompleteRequests
    /\ put_may_fail = TRUE
    /\ job = IdleJob
    /\ ChunkIdle
    /\ ClientIdle
    /\ RecombineIdle

SpecFaulty == InitFaulty /\ [][Next]_vars

\* the records the code writes to the store: processing (lambda.py:263),
\* failed with a message (275-281), summarizing (284-290),
\* summarizing_chunk_i_of_n (340-341), creating_meta_summary (363-364),
\* completed with the summary and failed without (314-325), and completed
\* without a summary (webpage_processor.py:261-265); or none
StoredRecords ==
    { NoRecord, ProcessingStatus,
      Result(St("summarizing"), None, "true"),
      Result(ChunkSt(1, 2), None, "true"),
      Result(St("creating_meta_summary"), None, "true"),
      Result(St("completed"), Str(<<Run("s", 1)>>), "true"),
      Result(St("completed"), Str(<<>>), "true"),
      Result(St("completed"), None, "true"),
      Result(St("failed"), None, "false") }
      \cup { ErrorStatus(message) : message \in ExtractMessages }

\* SpecWorker: lambda_handler has read no record for the key and calls
\* process_webpage (lambda.py:523), and meanwhile another writer has stored
\* one of the records
InitWorker ==
    /\ \E m \in NamedModes, rec \in StoredRecords :
          /\ proc = [p \in Procs |->
                        IF p = 1 THEN [IdleProc EXCEPT !.pc = "pw_check", !.mode = m]
                        ELSE IdleProc]
          /\ store = [k \in Keys |->
                         IF k = KeyOf(IdleProc.url, m) THEN rec ELSE NoRecord]
    /\ max_in_flight = 1
    /\ requests = CompleteRequests
    /\ put_may_fail = FALSE
    /\ job = IdleJob
    /\ ChunkIdle
    /\ ClientIdle
    /\ RecombineIdle

SpecWorker == InitWorker /\ [][Next]_vars

\* the order of the lifecycle: processing < summarizing <
\* summarizing_chunk_i_of_n (i ascending) < creating_meta_summary <
\* completed, failed; no record comes before all
Stage(st) ==
    CASE st.tag = "absent" -> 0
      [] st.tag = "processing" -> 1
      [] st.tag = "summarizing" -> 2
      [] st.tag = "summarizing_chunk" -> 3
      [] st.tag = "creating_meta_summary" -> 4
      [] st.tag \in {"completed", "failed"} -> 5
StatusLeq(a, b) == Stage(a) < Stage(b) \/ (Stage(a) = Stage(b) /\ a.i <= b.i)

Terminal == {"completed", "failed"}
NonTerminal == {"processing", "summarizing", "summarizing_chunk", "creating_meta_summary"}

\* invocation p made no extraction call, no completion call and no write
NoWork(p) ==
    proc[p].n_extract = 0 /\ proc[p].n_complete = 0 /\ proc[p].n_writes = 0

\* a step in which an invocation for key k calls the extraction collaborator
\* or the completion client
CallFor(k) ==
    \E p \in Procs :
        /\ KeyOf(proc'[p].url, proc'[p].mode) = k
        /\ (proc'[p].n_extract > proc[p].n_extract
              \/ proc'[p].n_complete > proc[p].n_complete)

\* C2: every job that enters status processing eventually has a stored
\* status of completed or failed.
C2_EventuallyTerminal ==
    \A k \in Keys :
        (store[k].status.tag = "processing") ~> (store[k].status.tag \in Terminal)

\* C3: the stored status of a key never regresses, whatever the requests and
\* their interleaving.
C3_NeverRegresses ==
    [][\A k \in Keys : StatusLeq(store[k].status, store'[k].status)]_vars

\* C3, amended: with requests handled one at a time the stored status of a
\* key never regresses.
C3_NeverRegressesOneAtATime ==
    [][max_in_flight = 1
         => \A k \in Keys : StatusLeq(store[k].status, store'[k].status)]_vars

\* one run, alone, has stored processing, summarizing and completed
C3_Witness ==
    /\ max_in_flight = 1
    /\ \E p \in Procs :
         /\ proc[p].pc = "done"
         /\ proc[p].n_writes = 3
         /\ store[KeyOfProc(p)].status.tag = "completed"

\* C4: a request that finds a non-terminal stored status returns the stored
\* record unchanged and makes no extraction call, no completion call and no
\* write.
C4_RepeatWhileRunning ==
    \A p \in Procs :
        (proc[p].pc = "done" /\ Truthy(proc[p].status)
            /\ proc[p].status.status.tag \in NonTerminal)
        => (proc[p].response = Response(200, proc[p].status) /\ NoWork(p))

C4_Witness ==
    \E p \in Procs :
        /\ proc[p].pc = "done"
        /\ proc[p].status.status.tag = "summarizing"
        /\ proc[p].response.body = proc[p].status
        /\ store[KeyOfProc(p)] = proc[p].status

\* C5: a request that finds the stored status completed returns the stored
\* final output and makes no extraction call, no completion call and no write.
C5_CacheHit ==
    \A p \in Procs :
        (proc[p].pc = "done" /\ Truthy(proc[p].status)
            /\ proc[p].status.status.tag = "completed")
        => /\ proc[p].response = Response(200, proc[p].status)
           /\ NonEmpty(proc[p].response.body.summary)
           /\ NoWork(p)

C5_Witness ==
    \E p \in Procs :
        /\ proc[p].pc = "done"
        /\ proc[p].status.status.tag = "completed"
        /\ proc[p].response.body.summary = Str(<<Run("s", 1)>>)
        /\ NoWork(p)

\* C6: once the stored status of a key is failed, the record stays as it is
\* and no extraction or completion call is made for the key again.
C6_FailureIsTerminal ==
    [][\A k \in Keys :
          store[k].status.tag = "failed" => (store'[k] = store[k] /\ ~CallFor(k))]_vars

\* C6, amended: once the stored status of a key is failed and no request for
\* the key is still at work, the record stays as it is, no later request
\* starts work for the key and no extraction or completion call is made for it.
C6_FailureIsTerminalOnceIdle ==
    [][\A k \in Keys :
          (store[k].status.tag = "failed" /\ Running(k) = {})
          => (store'[k] = store[k] /\ Running(k)' = {} /\ ~CallFor(k))]_vars

\* a later request found failed, was answered with the record and did nothing
C6_Witness ==
    \E p \in Procs :
        /\ proc[p].pc = "done"
        /\ proc[p].status.status.tag = "failed"
        /\ proc[p].response.body = store[KeyOfProc(p)]
        /\ NoWork(p)
        /\ Running(KeyOfProc(p)) = {}

\* the stages of the single-call path and of the multi-chunk path
SingleStages == {"single", "single_done"}
ChunkStages == {"chunk_call", "chunk_loop", "chunked"}

\* C11: a text shorter than 400000 characters is handled by exactly one
\* completion call with no chunking, and a text of 400000 characters or more
\* (exactly 400000 included) is split by the chunker.
C11_SplitAtOrAboveThreshold ==
    \A p \in Procs :
        /\ proc[p].pc \in SingleStages => TextLen(proc[p].content) < LengthThreshold
        /\ proc[p].pc \in ChunkStages => TextLen(proc[p].content) >= LengthThreshold

\* C11, amended: a text of at most 400000 characters (exactly 400000
\* included) is handled by exactly one completion call with no chunking, and
\* only a longer text is handed to the chunker, before any completion call.
C11_SplitAboveThreshold ==
    \A p \in Procs :
        /\ proc[p].pc \in SingleStages
             => /\ TextLen(proc[p].content) <= LengthThreshold
                /\ proc[p].chunks = <<>>
                /\ proc[p].n_complete = (IF proc[p].pc = "single_done" THEN 1 ELSE 0)
        /\ proc[p].pc \in ChunkStages
             => /\ TextLen(proc[p].content) > LengthThreshold
                /\ proc[p].n_complete = 0

\* a text of exactly 400000 characters got its one completion call
C11_Witness ==
    \E p \in Procs :
        /\ proc[p].pc = "single_done"
        /\ TextLen(proc[p].content) = LengthThreshold
        /\ proc[p].n_complete = 1
        /\ proc[p].chunks = <<>>

\* C16: in a multi-chunk run every chunk is submitted to the completion
\* client, in ascending order, whether or not an earlier one failed: a run
\* that takes the multi-chunk path comes to submit its first chunk.
C16_ChunksGetSubmitted ==
    \A p \in Procs :
        (proc[p].pc = "chunk_call") ~> (proc[p].pc = "chunked" \/ proc[p].n_complete > 0)

\* C17: a multi-chunk run ends completed if a chunk succeeded and failed if
\* none did: a run that takes the multi-chunk path ends with one of the two.
C17_MultiChunkRunEnds ==
    \A p \in Procs :
        (proc[p].pc = "chunk_call")
            ~> (proc[p].pc = "done" /\ proc[p].response.body.status.tag \in Terminal)

\* invocation p takes a step
Steps(p) == proc'[p] # proc[p] /\ proc'[p].pc # "idle"

\* C22: when extraction fails, failed is stored with the extraction
\* collaborator's message as the reason, no completion call is made, and the
\* run writes no later status: it ends with that write, and only an
\* invocation still at work changes the store.
C22_ExtractionFailureStored ==
    [][/\ \A p \in Procs :
            (proc[p].pc = "extract_failed" /\ Steps(p))
            => /\ proc[p].message \in ExtractMessages
               /\ store'[KeyOfProc(p)] =
                     [status |-> St("failed"), summary |-> None, success |-> "absent",
                      message |-> proc[p].message]
               /\ proc'[p].pc = "done"
               /\ proc'[p].n_complete = 0
               /\ proc'[p].n_writes = proc[p].n_writes + 1
       /\ store' # store => \E q \in Procs : InFlight(q) /\ Steps(q)]_vars

\* the download failed: processing and failed were written, nothing was summarized
C22_Witness ==
    \E p \in Procs :
        /\ proc[p].pc = "done"
        /\ proc[p].n_extract = 1
        /\ proc[p].n_complete = 0
        /\ proc[p].n_writes = 2
        /\ store[KeyOfProc(p)].status.tag = "failed"
        /\ store[KeyOfProc(p)].message = "Failed to download webpage content"

\* C23: every request through lambda_handler that carries a page_url and an
\* api_key ends with a response whose body is the job's status record
\* (completed, failed or in progress); the handler never ends with an
\* unhandled error.
C23_AlwaysAStatusRecord ==
    \A p \in Procs :
        (proc[p].pc = "done" /\ proc[p].request = "complete")
        => /\ proc[p].response.raised = "none"
           /\ proc[p].response.body.status.tag \in Terminal \cup NonTerminal

\* C24: a request that lacks page_url or api_key, or whose body is no JSON,
\* is answered 400 whatever the status store holds for the URL, and causes no
\* extraction, no completion call and no status write.
C24_MalformedRejected ==
    \A p \in Procs :
        (proc[p].pc = "done" /\ proc[p].request \in {"no_api_key", "no_page_url", "invalid_json"})
        => (proc[p].response.statusCode = 400 /\ NoWork(p))

\* C26: the status records of the default and the debate runs of a URL are
\* independent: a write changes only the record of the writing run's own
\* mode, a read returns only the record of the reading request's own mode,
\* and every mode value other than debate maps to the summaries namespace.
C26_ModesIndependent ==
    [][/\ \A k \in Keys :
            store'[k] # store[k]
            => \E p \in Procs :
                  /\ InFlight(p) /\ Steps(p)
                  /\ k = <<proc[p].url,
                           IF proc[p].mode = "debate" THEN "analysis" ELSE "summaries">>
       /\ \A p \in Procs :
            (~InFlight(p) /\ Steps(p) /\ proc'[p].request \in HasPageUrl)
            => proc'[p].status =
                  store[<<proc'[p].url,
                          IF proc'[p].mode = "debate" THEN "analysis" ELSE "summaries">>]
       /\ \A m \in JobModes :
            Namespace(m) = (IF m = "debate" THEN "analysis" ELSE "summaries")]_vars

\* the default run of the page has completed, its debate run has failed
C26_Witness ==
    \E u \in Urls :
        /\ store[<<u, "summaries">>].status.tag = "completed"
        /\ store[<<u, "analysis">>].status.tag = "failed"

\* C28: nothing in the read-then-write status check prevents duplicate work:
\* a request that reads no record is handed to process_webpage whoever else
\* is at work for the key; process_webpage goes on unless it reads a
\* completed record with a summary or the status processing; it then writes
\* processing unconditionally and extracts.  So two concurrent requests for a
\* fresh key can both write processing and both extract and summarize.
C28_NothingPreventsDuplicates ==
    [][\A p \in Procs :
          Steps(p)
          => /\ (~InFlight(p) /\ proc'[p].request = "complete"
                   /\ store[KeyOf(proc'[p].url, proc'[p].mode)] = NoRecord)
                => proc'[p].pc = "pw_check"
             /\ (proc[p].pc = "pw_check"
                   /\ store[KeyOfProc(p)].status.tag \notin {"completed", "processing"})
                => proc'[p].pc = "pw_start"
             /\ proc[p].pc = "pw_start"
                => /\ proc'[p].pc = "extract"
                   /\ store'[KeyOfProc(p)].status.tag = "processing"
             /\ proc[p].pc = "extract" => proc'[p].n_extract = 1]_vars

\* two requests for one key both read no record, both wrote processing and
\* summarizing, both extracted and both made their completion call
C28_Witness ==
    \E p, q \in Procs :
        /\ p # q
        /\ KeyOfProc(p) = KeyOfProc(q)
        /\ \A r \in {p, q} :
              /\ proc[r].pc = "single_done"
              /\ proc[r].status = NoRecord
              /\ proc[r].n_writes = 2
              /\ proc[r].n_extract = 1
              /\ proc[r].n_complete = 1

\* C30 (for a run that is alone): the work of a stage begins only with the
\* status naming the stage in the store: extraction with processing, the
\* summarization with summarizing; a status write that fails does not let the
\* run go on with the store showing an earlier status.
C30_StatusStoredBeforeStage ==
    \A p \in Procs :
        /\ proc[p].pc = "extract" => store[KeyOfProc(p)].status.tag = "processing"
        /\ proc[p].pc \in SingleStages \cup ChunkStages
             => store[KeyOfProc(p)].status.tag = "summarizing"

\* C37: process_webpage returns early only when the stored status is
\* completed with a summary that is not empty, or is exactly processing;
\* called with a stored status of summarizing, summarizing_chunk_i_of_n,
\* creating_meta_summary, failed, or completed without a summary, it
\* overwrites the record with processing and runs the extraction and the
\* summarization again.
C37_ShortCircuitOnly ==
    [][\A p \in Procs :
          Steps(p)
          => LET status == store[KeyOfProc(p)] IN
             /\ proc[p].pc = "pw_check"
                => /\ (proc'[p].pc = "done")
                        <=> \/ status.status.tag = "completed" /\ NonEmpty(status.summary)
                            \/ status.status.tag = "processing"
                   /\ proc'[p].pc # "done" => proc'[p].pc = "pw_start"
                   /\ store' = store
             /\ proc[p].pc = "pw_start"
                => /\ store'[KeyOfProc(p)] = ProcessingStatus
                   /\ proc'[p].pc = "extract"
             /\ proc[p].pc = "extract"
                => /\ proc'[p].n_extract = proc[p].n_extract + 1
                   /\ proc'[p].pc \in {"extract_failed", "extracted"}
             /\ proc[p].pc = "extracted" => proc'[p].pc \in {"single", "chunk_call"}]_vars

\* process_webpage read creating_meta_summary and is about to start over
C37_Witness ==
    \E p \in Procs :
        /\ proc[p].pc = "pw_start"
        /\ proc[p].n_writes = 0
        /\ store[KeyOfProc(p)].status = St("creating_meta_summary")

\* texts just above the threshold with a sentence end before, at and behind
\* the midpoint of the first window and at its end
MarkedTexts ==
    { <<Run("a", k), Run(DOT, 1), Run(SP, 1), Run("a", LengthThreshold - k)>> :
          k \in {1, LengthThreshold \div 2, LengthThreshold \div 2 + 1,
                 LengthThreshold - 2} }

\* C35: whenever the multi-chunk path is taken (a text longer than 400000,
\* chunk_text with its default max_chunk_size 400000), the chunker makes at
\* least two chunks: its first chunk is not the whole text and its loop goes
\* on, so the branch for one chunk only is never reached.
C35_AtLeastTwoChunks ==
    /\ \A p \in Procs :
          /\ (proc[p].pc \in {"chunk_loop", "chunked"} /\ proc[p].chunks # <<>>)
                => /\ TextLen(proc[p].chunks[1]) < TextLen(proc[p].content)
                   /\ Len(proc[p].chunks) = 1 => proc[p].pc = "chunk_loop"
          /\ proc[p].pc = "chunked" => Len(proc[p].chunks) >= 2
    /\ \A t \in MarkedTexts :
          LET it == ChunkIter(t, DefaultMaxChunkSize, DefaultOverlap, 0)
          IN /\ ~FitsOneCall(TextLen(t))
             /\ TextLen(it.chunk) < TextLen(t)
             /\ LoopContinues(t, it.start_pos)

\* a text of 400001 characters went to chunk_text, which has made two chunks
C35_Witness ==
    \E p \in Procs :
        /\ proc[p].pc = "chunk_loop"
        /\ TextLen(proc[p].content) = LengthThreshold + 1
        /\ Len(proc[p].chunks) = 2
        /\ TextLen(proc[p].chunks[1]) = DefaultMaxChunkSize

----------------------------------------------------------------------------
(* SpecChunk: chunk_text on bounded inputs.                                *)

Alphabet == {"a", DOT, SP}

RECURSIVE TextsOf(_)
TextsOf(r) ==
    IF r = 0 THEN {<<>>}
    ELSE LET shorter == TextsOf(r - 1) IN
         shorter \cup
         { Append(t, Run(c, n)) : t \in { u \in shorter : Len(u) = r - 1 },
                                  c \in Alphabet, n \in 1..MaxRun }

Canonical(t) == \A j \in 1..(Len(t) - 1) : t[j].c # t[j + 1].c

Texts == { t \in TextsOf(MaxRuns) : Canonical(t) }

\* The marker inputs: texts of up to MaxTokens pieces, a piece being a run
\* of letters or one of the markers; with a max_chunk_size below 7 a marker
\* after the midpoint always ends at the raw end of the window.
FillLengths == {1, 2, 4, 8}
Tokens ==
    { <<Run("a", n)>> : n \in FillLengths }
      \cup { Cat(<<Run(Markers[k][1], 1)>>, <<Run(Markers[k][2], 1)>>) : k \in 1..Len(Markers) }

RECURSIVE TokenTexts(_)
TokenTexts(r) ==
    IF r = 0 THEN {<<>>}
    ELSE LET shorter == TokenTexts(r - 1) IN
         shorter \cup { Cat(t, k) : t \in shorter, k \in Tokens }

LongTexts == TokenTexts(MaxTokens)
LongSizes == (MaxLongSize - 1)..MaxLongSize
LongOverlaps == {0, 1}

InitChunk ==
    /\ \/ /\ text \in Texts
          /\ max_chunk_size \in 1..MaxSize
          /\ overlap \in 0..(MaxSize - 1)
          /\ overlap < max_chunk_size
       \/ /\ text \in LongTexts
          /\ max_chunk_size \in LongSizes
          /\ overlap \in LongOverlaps
    /\ start_pos = 0
    /\ end_pos = 0
    /\ chunks = <<>>
    /\ ct_pc = "call"
    /\ ClientIdle
    /\ JobIdle
    /\ RecombineIdle

\* lines 230-234: the locals, and the first test of the while condition
ChunkCall ==
    /\ ct_pc = "call"
    /\ start_pos' = 0
    /\ end_pos' = 0
    /\ chunks' = <<>>
    /\ ct_pc' = IF LoopContinues(text, 0) THEN "loop" ELSE "done"
    /\ UNCHANGED <<text, max_chunk_size, overlap, clientVars, jobVars, recombineVars>>

\* lines 236-253: one iteration, then the break or the while condition.
\* A call that returns makes at most TextLen(text) iterations (each moves
\* start_pos forward by one at least); the model records TextLen(text) + 1
\* chunks, so a loop that never ends shows as this step repeating without a
\* change.
ChunkLoop ==
    /\ ct_pc = "loop"
    /\ LET it == ChunkIter(text, max_chunk_size, overlap, start_pos) IN
       /\ end_pos' = it.end_pos
       /\ chunks' = IF Len(chunks) <= TextLen(text)
                    THEN Append(chunks, it.chunk) ELSE chunks
       /\ start_pos' = it.start_pos
       /\ ct_pc' = IF LoopContinues(text, it.start_pos) THEN "loop" ELSE "done"
    /\ UNCHANGED <<text, max_chunk_size, overlap, clientVars, jobVars, recombineVars>>

NextChunk == ChunkCall \/ ChunkLoop

SpecChunk == InitChunk /\ [][NextChunk]_vars

----------------------------------------------------------------------------
\* C1: chunk_text terminates: once the chunk that reaches the end of the text
\* has been emitted, the loop has ended (for max_chunk_size > 0 and
\* 0 <= overlap < max_chunk_size).
C1_LoopEndsAtTextEnd ==
    (ct_pc # "call" /\ chunks # <<>> /\ end_pos = TextLen(text)) => ct_pc = "done"

\* C12 (for a non-empty text; the empty text returns no chunk at all): a text
\* shorter than max_chunk_size gives exactly one chunk, the whole text.
C12_ShortTextOneChunk ==
    (ct_pc # "call" /\ text # <<>> /\ TextLen(text) < max_chunk_size)
        => /\ Len(chunks) <= 1
           /\ ct_pc = "done" => chunks = <<text>>

\* c[ovl:]
DropOverlap(c, ovl) == Slice(c, ovl, TextLen(c))

\* the first chunk, then every later chunk without its first ovl characters
RECURSIVE Rebuild(_, _)
Rebuild(cs, ovl) ==
    IF cs = <<>> THEN <<>>
    ELSE IF Len(cs) = 1 THEN cs[1]
    ELSE Cat(Rebuild(SubSeq(cs, 1, Len(cs) - 1), ovl), DropOverlap(cs[Len(cs)], ovl))

\* C13: the chunks cover the text exactly: the chunk that ends at the end of
\* the text is the last of the list returned, and the first chunk followed by
\* the later chunks without their first overlap characters is the text.
C13_ChunksCoverText ==
    (ct_pc # "call" /\ chunks # <<>> /\ end_pos = TextLen(text))
        => /\ ct_pc = "done"
           /\ Rebuild(chunks, overlap) = text

\* the character at position i, 0 <= i < TextLen(t)
RECURSIVE CharAt(_, _)
CharAt(t, i) == IF i < t[1].n THEN t[1].c ELSE CharAt(Tail(t), i - t[1].n)

\* the positions of marker m within the window t[s:e]
Occurrences(t, m, s, e) ==
    { q \in s..(e - 2) : CharAt(t, q) = m[1] /\ CharAt(t, q + 1) = m[2] }

Rightmost(S) == CHOOSE q \in S : \A r \in S : r <= q
Lowest(S) == CHOOSE k \in S : \A j \in S : k <= j

\* the split point as C14 has it: the first marker type with an occurrence in
\* the window decides
FirstPresentEnd(t, size, start) ==
    LET raw == start + size
        present == { k \in 1..Len(Markers) : Occurrences(t, Markers[k], start, raw) # {} }
    IN IF present = {} THEN raw
       ELSE LET last == Rightmost(Occurrences(t, Markers[Lowest(present)], start, raw))
            IN IF 2 * last > 2 * start + size THEN last + 2 ELSE raw

\* the split point as amended: the first marker type with an occurrence
\* after the midpoint decides
FirstAcceptedEnd(t, size, start) ==
    LET raw == start + size
        accepted == { k \in 1..Len(Markers) :
                        \E q \in Occurrences(t, Markers[k], start, raw) :
                            q > start + (size \div 2) }
    IN IF accepted = {} THEN raw
       ELSE Rightmost(Occurrences(t, Markers[Lowest(accepted)], start, raw)) + 2

\* C14: with the candidate end before the end of the text, the first marker
\* type in priority order that occurs in the window decides: its rightmost
\* occurrence is the split point if it lies after start + max_chunk_size/2,
\* otherwise the chunk is cut at the candidate end.
C14_FirstPresentMarkerDecides ==
    [][(ct_pc = "loop" /\ start_pos + max_chunk_size < TextLen(text))
          => end_pos' = FirstPresentEnd(text, max_chunk_size, start_pos)]_vars

\* C14, amended: the first marker type in priority order whose rightmost
\* occurrence in the window lies after start + max_chunk_size // 2 decides,
\* and the chunk ends right after that occurrence; the chunk is cut at the
\* candidate end only when no marker type has such an occurrence.
C14_FirstAcceptedMarkerDecides ==
    [][(ct_pc = "loop" /\ start_pos + max_chunk_size < TextLen(text))
          => end_pos' = FirstAcceptedEnd(text, max_chunk_size, start_pos)]_vars

\* "\n\naa. aa" with max_chunk_size 7: the paragraph break lies before the
\* midpoint, and the chunk was cut after the period-space
C14_Witness ==
    /\ text = <<Run(NL, 2), Run("a", 2), Run(DOT, 1), Run(SP, 1), Run("a", 2)>>
    /\ max_chunk_size = 7
    /\ chunks # <<>>
    /\ chunks[1] = <<Run(NL, 2), Run("a", 2), Run(DOT, 1), Run(SP, 1)>>

\* a text of n letters without a marker
Plain(n) == IF n = 0 THEN <<>> ELSE <<Run("a", n)>>

\* C15: the number of chunks is non-decreasing in the length of the text, for
\* fixed max_chunk_size and overlap; here for the text of the call and the
\* text of the same length that holds no marker.
C15_CountMonotoneInLength ==
    ct_pc = "done"
        => Len(chunks) <= ChunkCount(Plain(TextLen(text)), max_chunk_size, overlap)

\* C34: every chunk chunk_text returns is at most max_chunk_size long, and
\* every chunk but the last is longer than max_chunk_size / 2: a marker at or
\* before the midpoint of the window is never the split point.
C34_ChunkLengths ==
    /\ \A j \in 1..Len(chunks) : TextLen(chunks[j]) <= max_chunk_size
    /\ ct_pc = "done"
          => \A j \in 1..(Len(chunks) - 1) : 2 * TextLen(chunks[j]) > max_chunk_size

\* a call that returned several chunks; the first was cut at a marker behind
\* the midpoint, and a marker lay before the midpoint as well
C34_Witness ==
    /\ ct_pc = "done"
    /\ Len(chunks) >= 2
    /\ TextLen(chunks[1]) < max_chunk_size
    /\ \E k \in 1..Len(Markers) :
          LET found == Occurrences(text, Markers[k], 0, max_chunk_size)
          IN found # {} /\ Lowest(found) + 2 <= max_chunk_size \div 2

====
